---- MODULE Spec2Model ----
(***************************************************************************)
(* myfeeds: the polling loops of Feeder (src/myfeeds/main.py).             *)
(*                                                                         *)
(* Feeder.start creates one asyncio task per (source, id) of the           *)
(* configuration.  A task runs synchronously between two awaits, so every  *)
(* action below is the code a task runs from the completion of one await   *)
(* (the GET of the fetch, the POST of the push, the sleep) to the next.    *)
(* The three markers are ContextVars: every task reads and writes them in  *)
(* the context it copied when it was created.                              *)
(***************************************************************************)
EXTENDS Integers, Sequences, FiniteSets, TLC

\* ------------------------------------------------------------------ bounds
\* Longest item list a fetch returns when a single loop runs; when several
\* loops run, the bound is shared among them (PerFetch).
MaxItems == 4
\* Wall-clock readings and item timestamps range over 1..MaxTime.
MaxTime == 3

\* ------------------------------------------------------------- Python values
\* Optional values: None, or a one-element tuple holding the value.
None == <<>>
Some(v) == <<v>>
Val(o) == o[1]

\* The empty string returned by prepare_*_feed on an empty list; a rendered
\* text is the sequence of its entries.
EmptyText == <<>>

Sources == {"weibo", "bilibili", "youku"}
Titles == {"k1", "k2", "k3", "k4"}
Timestamps == 1..MaxTime

\* Parsed items, reduced to the field the dedup step reads.
StatusItems == [timestamp : Timestamps]
VideoItems == [title : Titles]

SeqsUpTo(S, n) == UNION {[1..k -> S] : k \in 0..n}

\* config.sources: an ordered mapping from source name to the list of ids.
Configs ==
    { << [source |-> "weibo", ids |-> <<1>>] >>,
      << [source |-> "bilibili", ids |-> <<1>>] >>,
      << [source |-> "youku", ids |-> <<1>>] >>,
      << [source |-> "weibo", ids |-> <<1, 2>>] >>,
      << [source |-> "youku", ids |-> <<1, 2>>] >>,
      << [source |-> "weibo", ids |-> <<1>>], [source |-> "bilibili", ids |-> <<1>>] >>,
      << [source |-> "youku", ids |-> <<1>>], [source |-> "weibo", ids |-> <<1>>] >> }

VARIABLES
    config,     \* config.sources
    runner,     \* asyncio.run(self.start()): "init", "running", "exited"
    tasks,      \* the coroutines handed to asyncio.gather, in order
    pc,         \* per task: the await it is suspended at, or how it ended
    ctx,        \* per context (0: module level, i: task i): marker values
    fetched,    \* per task: the parsed items of this cycle (None: no list, the
                \* fetch failed or an item could not be parsed)
    marker,     \* per task: the marker value prepare_*_feed read in this cycle
    selected,   \* per task: the items prepare_*_feed kept in this cycle
    feed,       \* per task: the text prepare_*_feed returned in this cycle
    sent,       \* per task: this cycle issued the POST of push
    exc,        \* per task: the exception the task ended with, or "None"
    now,        \* the last reading of the wall clock
    tick,       \* per task: the index i of the loop of reportable_sleep
    beats,      \* per task: the heartbeats reportable_sleep logged in this sleep
    seen,       \* per task: the items kept by the cycles so far (history)
    intime      \* per task: those of seen not newer than the clock when first kept

vars == <<config, runner, tasks, pc, ctx, fetched, marker, selected, feed, sent, exc, now,
          tick, beats, seen, intime>>

Tasks == 1..Len(tasks)

\* ------------------------------------------------------------ pure helpers
\* Mutant of first_only: the whole list.
first_all(items) == items

\* statuses[:1]
first_only(items) == SubSeq(items, 1, 1)

RECURSIVE insert_desc(_, _)
insert_desc(x, s) ==
    IF s = <<>> THEN <<x>>
    ELSE IF Head(s).timestamp <= x.timestamp THEN <<x>> \o s
    ELSE <<Head(s)>> \o insert_desc(x, Tail(s))

\* Mutant of sorted_desc: reverse=True is missing.
RECURSIVE sorted_asc(_)
sorted_asc(items) ==
    IF items = <<>> THEN <<>>
    ELSE LET rest == sorted_asc(Tail(items))
             x == Head(items)
         IN SelectSeq(rest, LAMBDA s : s.timestamp < x.timestamp) \o <<x>>
            \o SelectSeq(rest, LAMBDA s : s.timestamp >= x.timestamp)

\* sorted(items, key=lambda s: s["timestamp"], reverse=True): stable.
RECURSIVE sorted_desc(_)
sorted_desc(items) ==
    IF items = <<>> THEN <<>>
    ELSE insert_desc(Head(items), sorted_desc(Tail(items)))

\* Mutant of newer_than: >= for >.
newer_or_equal(items, m) == SelectSeq(items, LAMBDA s : s.timestamp >= m)

\* [s for s in statuses if s["timestamp"] > marker]
newer_than(items, m) == SelectSeq(items, LAMBDA s : s.timestamp > m)

\* Mutant of scan_until: continue for break.
scan_skip(targets, m) == SelectSeq(targets, LAMBDA v : v.title # m)

\* Mutant of scan_until: nothing is kept when no title equals the marker.
scan_or_nothing(targets, m) ==
    IF \A j \in 1..Len(targets) : targets[j].title # m THEN <<>>
    ELSE SubSeq(targets, 1,
                (CHOOSE p \in 1..Len(targets) :
                    /\ targets[p].title = m
                    /\ \A q \in 1..(p - 1) : targets[q].title # m) - 1)

\* for v in targets: if v["title"] == marker: break; videos.append(v)
RECURSIVE scan_until(_, _)
scan_until(targets, m) ==
    IF targets = <<>> THEN <<>>
    ELSE IF Head(targets).title = m THEN <<>>
    ELSE <<Head(targets)>> \o scan_until(Tail(targets), m)

\* env.get_template(name).render(...): one entry per item, nothing for none.
render(template, items) ==
    [i \in 1..Len(items) |-> [template |-> template, item |-> items[i]]]

\* ---------------------------------------------------------- prepare_*_feed
\* Mutant of prepare_weibo_feed: the marker becomes the newest timestamp.
prepare_weibo_item_time(statuses, cur, t) ==
    IF Len(statuses) = 0
    THEN [feed |-> EmptyText, marker |-> None, selected |-> <<>>, cursor |-> cur]
    ELSE LET sorted == sorted_desc(statuses)
             kept == IF cur = None THEN first_only(sorted)
                     ELSE newer_than(sorted, Val(cur))
         IN [feed |-> render("weibo_statuses.md", kept), marker |-> cur,
             selected |-> kept, cursor |-> Some(sorted[1].timestamp)]

\* Mutant of prepare_weibo_feed: the marker is written on a cold start only.
prepare_weibo_keep_marker(statuses, cur, t) ==
    IF Len(statuses) = 0
    THEN [feed |-> EmptyText, marker |-> None, selected |-> <<>>, cursor |-> cur]
    ELSE LET sorted == sorted_desc(statuses)
             kept == IF cur = None THEN first_only(sorted)
                     ELSE newer_than(sorted, Val(cur))
         IN [feed |-> render("weibo_statuses.md", kept), marker |-> cur,
             selected |-> kept, cursor |-> IF cur = None THEN Some(t) ELSE cur]

\* Mutant of prepare_bilibili_feed: the marker is not written before the
\* text is returned and pushed.
prepare_bilibili_late(submissions, cur, t) ==
    IF Len(submissions) = 0
    THEN [feed |-> EmptyText, marker |-> None, selected |-> <<>>, cursor |-> cur]
    ELSE LET sorted == sorted_desc(submissions)
             kept == IF cur = None THEN first_only(sorted)
                     ELSE newer_than(sorted, Val(cur))
         IN [feed |-> render("bilibili_submissions.md", kept), marker |-> cur,
             selected |-> kept, cursor |-> cur]

\* Mutant of prepare_youku_feed: the marker is unset when nothing is kept.
prepare_youku_reset(videos, cur) ==
    IF Len(videos) = 0
    THEN [feed |-> EmptyText, marker |-> None, selected |-> <<>>, cursor |-> cur]
    ELSE LET kept == IF cur = None THEN first_only(videos)
                     ELSE scan_until(videos, Val(cur))
         IN [feed |-> render("youku_videos.md", kept), marker |-> cur,
             selected |-> kept,
             cursor |-> IF kept # <<>> THEN Some(kept[1].title) ELSE None]

\* Mutant of prepare_youku_feed: the marker becomes the last kept title.
prepare_youku_last(videos, cur) ==
    IF Len(videos) = 0
    THEN [feed |-> EmptyText, marker |-> None, selected |-> <<>>, cursor |-> cur]
    ELSE LET kept == IF cur = None THEN first_only(videos)
                     ELSE scan_until(videos, Val(cur))
         IN [feed |-> render("youku_videos.md", kept), marker |-> cur,
             selected |-> kept,
             cursor |-> IF kept # <<>> THEN Some(kept[Len(kept)].title) ELSE cur]

\* Each returns the text, the marker value it read, the items it kept and
\* the value of the ContextVar when it returns.
prepare_weibo_feed(statuses, cur, t) ==
    IF Len(statuses) = 0
    THEN [feed |-> EmptyText, marker |-> None, selected |-> <<>>, cursor |-> cur]
    ELSE LET sorted == sorted_desc(statuses)
             kept == IF cur = None THEN first_only(sorted)
                     ELSE newer_than(sorted, Val(cur))
         IN [feed |-> render("weibo_statuses.md", kept), marker |-> cur,
             selected |-> kept, cursor |-> Some(t)]

\* Mutant of prepare_bilibili_feed: no early return on an empty list.
prepare_bilibili_unguarded(submissions, cur, t) ==
    [feed |-> EmptyText, marker |-> cur, selected |-> <<>>, cursor |-> Some(t)]

prepare_bilibili_feed(submissions, cur, t) ==
    IF Len(submissions) = 0
    THEN [feed |-> EmptyText, marker |-> None, selected |-> <<>>, cursor |-> cur]
    ELSE LET sorted == sorted_desc(submissions)
             kept == IF cur = None THEN first_only(sorted)
                     ELSE newer_than(sorted, Val(cur))
         IN [feed |-> render("bilibili_submissions.md", kept), marker |-> cur,
             selected |-> kept, cursor |-> Some(t)]

prepare_youku_feed(videos, cur) ==
    IF Len(videos) = 0
    THEN [feed |-> EmptyText, marker |-> None, selected |-> <<>>, cursor |-> cur]
    ELSE LET kept == IF cur = None THEN first_only(videos)
                     ELSE scan_until(videos, Val(cur))
         IN [feed |-> render("youku_videos.md", kept), marker |-> cur,
             selected |-> kept,
             cursor |-> IF kept # <<>> THEN Some(kept[1].title) ELSE cur]

\* Mutant of push: no early return on an empty feed.
push_always(text) == "push"

\* push: returns at once on an empty feed, else awaits the POST.
push(text) == IF text = EmptyText THEN "sleep" ELSE "push"

\* --------------------------------------------------------------- the runner
\* Mutant of copy_context: every task runs in the module-level context.
shared_context(i) == 0

\* The context a task runs in: asyncio copies the current context for every
\* task it creates.
copy_context(i) == i

\* The marker of its source as task i reads it.
Cursor(i) == ctx[copy_context(i)][tasks[i].source]

\* Mutant of task_list: one task per source, for its first id.
RECURSIVE task_list_first(_)
task_list_first(c) ==
    IF c = <<>> THEN <<>>
    ELSE [k \in 1..(IF Head(c).ids = <<>> THEN 0 ELSE 1) |->
             [source |-> Head(c).source, id |-> Head(c).ids[k]]]
         \o task_list_first(Tail(c))

\* for source in self.sources: for id_ in config.sources.get(source):
\* tasks.append(getattr(self, f"{source}_task")(id_))
RECURSIVE task_list(_)
task_list(c) ==
    IF c = <<>> THEN <<>>
    ELSE [k \in 1..Len(Head(c).ids) |-> [source |-> Head(c).source, id |-> Head(c).ids[k]]]
         \o task_list(Tail(c))

\* Items one fetch may return: MaxItems for a single loop, a share of it for
\* each of several loops.
PerFetch == IF Len(tasks) <= 1 THEN MaxItems ELSE MaxItems \div (2 * Len(tasks))

FetchResults(i) ==
    {None} \cup
    { Some(s) : s \in SeqsUpTo(IF tasks[i].source = "youku" THEN VideoItems ELSE StatusItems,
                               PerFetch) }

Init ==
    /\ config \in Configs
    /\ runner = "init"
    /\ tasks = <<>>
    /\ pc = <<>>
    /\ ctx = [c \in {0} |-> [s \in Sources |-> None]]
    /\ fetched = <<>>
    /\ marker = <<>>
    /\ selected = <<>>
    /\ feed = <<>>
    /\ sent = <<>>
    /\ exc = <<>>
    /\ now = 1
    /\ tick = <<>>
    /\ beats = <<>>
    /\ seen = <<>>
    /\ intime = <<>>

\* Feeder.start under asyncio.run: one task per (source, id), each suspended
\* at the GET of its first fetch.
start ==
    /\ runner = "init"
    /\ runner' = "running"
    /\ tasks' = task_list(config)
    /\ pc' = [i \in 1..Len(tasks') |-> "fetch"]
    /\ ctx' = [c \in 0..Len(tasks') |-> ctx[0]]
    /\ fetched' = [i \in 1..Len(tasks') |-> None]
    /\ marker' = [i \in 1..Len(tasks') |-> None]
    /\ selected' = [i \in 1..Len(tasks') |-> <<>>]
    /\ feed' = [i \in 1..Len(tasks') |-> EmptyText]
    /\ sent' = [i \in 1..Len(tasks') |-> FALSE]
    /\ exc' = [i \in 1..Len(tasks') |-> "None"]
    /\ tick' = [i \in 1..Len(tasks') |-> 0]
    /\ beats' = [i \in 1..Len(tasks') |-> 0]
    /\ seen' = [i \in 1..Len(tasks') |-> {}]
    /\ intime' = [i \in 1..Len(tasks') |-> {}]
    /\ UNCHANGED <<config, now>>

\* reportable_sleep: seconds = 10 * 60, a heartbeat when i % 60 == 0.
SleepSeconds == 600
HeartbeatEvery == 60
heartbeat(i) == IF i % HeartbeatEvery = 0 THEN 1 ELSE 0

\* Task i enters reportable_sleep (i = 0, up to the first await) when p is
\* "sleep".
EnterSleep(i, p) ==
    /\ tick' = [tick EXCEPT ![i] = 0]
    /\ beats' = [beats EXCEPT ![i] = IF p = "sleep" THEN heartbeat(0) ELSE 0]

\* What a cycle leaves behind once prepare_*_feed returned r and push ran.
Cycle(i, res, r) ==
    /\ fetched' = [fetched EXCEPT ![i] = res]
    /\ marker' = [marker EXCEPT ![i] = r.marker]
    /\ selected' = [selected EXCEPT ![i] = r.selected]
    /\ feed' = [feed EXCEPT ![i] = r.feed]
    /\ ctx' = [ctx EXCEPT ![copy_context(i)][tasks[i].source] = r.cursor]
    /\ sent' = [sent EXCEPT ![i] = (push(r.feed) = "push")]
    /\ pc' = [pc EXCEPT ![i] = push(r.feed)]
    /\ EnterSleep(i, push(r.feed))
    /\ UNCHANGED exc

\* The task ends with an exception before prepare_*_feed is reached: a
\* failed fetch or an item that cannot be parsed leaves no parsed list.
Raise(i, res, e) ==
    /\ fetched' = [fetched EXCEPT ![i] = res]
    /\ marker' = [marker EXCEPT ![i] = None]
    /\ selected' = [selected EXCEPT ![i] = <<>>]
    /\ feed' = [feed EXCEPT ![i] = EmptyText]
    /\ sent' = [sent EXCEPT ![i] = FALSE]
    /\ pc' = [pc EXCEPT ![i] = "done"]
    /\ exc' = [exc EXCEPT ![i] = e]
    /\ UNCHANGED <<ctx, tick, beats>>

\* The task ends with the exception of render, the last statement of
\* prepare_*_feed: the marker is already written, nothing is returned.
RaiseInRender(i, res, r) ==
    /\ fetched' = [fetched EXCEPT ![i] = res]
    /\ marker' = [marker EXCEPT ![i] = r.marker]
    /\ selected' = [selected EXCEPT ![i] = r.selected]
    /\ feed' = [feed EXCEPT ![i] = EmptyText]
    /\ ctx' = [ctx EXCEPT ![copy_context(i)][tasks[i].source] = r.cursor]
    /\ sent' = [sent EXCEPT ![i] = FALSE]
    /\ pc' = [pc EXCEPT ![i] = "done"]
    /\ exc' = [exc EXCEPT ![i] = "TemplateError"]
    /\ UNCHANGED <<tick, beats>>

\* Nothing is prepared or pushed in this cycle.
Skip(i, res) ==
    Cycle(i, res, [feed |-> EmptyText, marker |-> None, selected |-> <<>>, cursor |-> Cursor(i)])

\* A non-empty list of raw items: parsing one of them may raise; if not,
\* prepare_*_feed returns r, unless render raises on the items it kept.
ParseAndPrepare(i, res, r) ==
    \/ Cycle(i, res, r)
    \/ Raise(i, None, "KeyError")
    \/ r.selected # <<>> /\ RaiseInRender(i, res, r)

\* The body of weibo_task from the completion of a fetch that returns one of
\* results, at a clock reading among times, to the next await.
weibo_cycle(i, results, times) ==
    /\ runner = "running"
    /\ tasks[i].source = "weibo"
    /\ pc[i] = "fetch"
    /\ \E res \in results, t \in times :
        /\ now' = t
        /\ IF res # None /\ Val(res) # <<>>
           THEN ParseAndPrepare(i, res, prepare_weibo_feed(Val(res), Cursor(i), t))
           ELSE Skip(i, res)
    /\ UNCHANGED <<config, runner, tasks>>

\* The same of bilibili_task.
bilibili_cycle(i, results, times) ==
    /\ runner = "running"
    /\ tasks[i].source = "bilibili"
    /\ pc[i] = "fetch"
    /\ \E res \in results, t \in times :
        /\ now' = t
        /\ IF res = None
           THEN Raise(i, res, "TypeError")
           ELSE IF Val(res) = <<>>
           THEN Cycle(i, res, prepare_bilibili_feed(Val(res), Cursor(i), t))
           ELSE ParseAndPrepare(i, res, prepare_bilibili_feed(Val(res), Cursor(i), t))
    /\ UNCHANGED <<config, runner, tasks>>

\* The same of youku_task, which reads no clock.
youku_cycle(i, results) ==
    /\ runner = "running"
    /\ tasks[i].source = "youku"
    /\ pc[i] = "fetch"
    /\ \E res \in results :
        IF res = None
        THEN Raise(i, res, "TypeError")
        ELSE IF Val(res) = <<>>
        THEN Cycle(i, res, prepare_youku_feed(Val(res), Cursor(i)))
        ELSE ParseAndPrepare(i, res, prepare_youku_feed(Val(res), Cursor(i)))
    /\ UNCHANGED <<config, runner, tasks, now>>

\* weibo_task, from the completion of the fetch to the next await.
weibo_task(i) ==
    /\ weibo_cycle(i, FetchResults(i), now..MaxTime)
    /\ UNCHANGED <<seen, intime>>

\* bilibili_task, from the completion of the fetch to the next await.
bilibili_task(i) ==
    /\ bilibili_cycle(i, FetchResults(i), now..MaxTime)
    /\ UNCHANGED <<seen, intime>>

\* youku_task, from the completion of the fetch to the next await.
youku_task(i) ==
    /\ youku_cycle(i, FetchResults(i))
    /\ UNCHANGED <<seen, intime>>

\* push, from the completion of the POST: request raises on a failure
\* (network error, raise_for_status), else the task goes to sleep.
push_done(i) ==
    /\ runner = "running"
    /\ pc[i] = "push"
    /\ \E ok \in BOOLEAN :
        /\ pc' = [pc EXCEPT ![i] = IF ok THEN "sleep" ELSE "done"]
        /\ exc' = [exc EXCEPT ![i] = IF ok THEN @ ELSE "HTTPError"]
        /\ EnterSleep(i, IF ok THEN "sleep" ELSE "done")
    /\ UNCHANGED <<config, runner, tasks, ctx, fetched, marker, selected, feed, sent, now,
                   seen, intime>>

\* The loop of weibo_task, bilibili_task, youku_task starts its next
\* iteration, which reads nothing the previous cycle computed, and issues
\* the GET of the fetch.
NextCycle(i) ==
    /\ pc' = [pc EXCEPT ![i] = "fetch"]
    /\ fetched' = [fetched EXCEPT ![i] = None]
    /\ marker' = [marker EXCEPT ![i] = None]
    /\ selected' = [selected EXCEPT ![i] = <<>>]
    /\ feed' = [feed EXCEPT ![i] = EmptyText]
    /\ sent' = [sent EXCEPT ![i] = FALSE]
    /\ tick' = [tick EXCEPT ![i] = 0]
    /\ beats' = [beats EXCEPT ![i] = 0]

\* reportable_sleep as a whole: all its remaining ticks pass, it returns and
\* the next cycle starts.
reportable_sleep(i) ==
    /\ runner = "running"
    /\ pc[i] = "sleep"
    /\ NextCycle(i)
    /\ UNCHANGED <<config, runner, tasks, ctx, exc, now, seen, intime>>

\* reportable_sleep tick by tick: one await asyncio.sleep(1) completes; the
\* loop goes on with the next i, or ends when range(seconds) is exhausted.
sleep_tick(i) ==
    /\ runner = "running"
    /\ pc[i] = "sleep"
    /\ IF tick[i] + 1 < SleepSeconds
       THEN /\ tick' = [tick EXCEPT ![i] = @ + 1]
            /\ beats' = [beats EXCEPT ![i] = @ + heartbeat(tick[i] + 1)]
            /\ UNCHANGED <<pc, fetched, marker, selected, feed, sent>>
       ELSE NextCycle(i)
    /\ UNCHANGED <<config, runner, tasks, ctx, exc, now, seen, intime>>

\* Mutant of cancelled_pc: only a sleeping task is cancelled.
cancelled_at_tick(p) == IF p = "sleep" THEN "cancelled" ELSE p

\* A cancelled task gets CancelledError at the await it is suspended at,
\* whichever it is; a task that has ended stays as it ended.
cancelled_pc(p) == IF p = "done" THEN "done" ELSE "cancelled"

\* gather propagates the first exception to start; asyncio.run then cancels
\* the tasks that are still running.
run_exit ==
    /\ runner = "running"
    /\ \E i \in Tasks : pc[i] = "done"
    /\ runner' = "exited"
    /\ pc' = [i \in Tasks |-> cancelled_pc(pc[i])]
    /\ UNCHANGED <<config, tasks, ctx, fetched, marker, selected, feed, sent, exc, now,
                   tick, beats, seen, intime>>

\* The process is asked to stop (KeyboardInterrupt under asyncio.run): the
\* main task and, through gather, every task is cancelled.
cancel ==
    /\ runner = "running"
    /\ \A i \in Tasks : pc[i] # "done"
    /\ runner' = "exited"
    /\ pc' = [i \in Tasks |-> cancelled_pc(pc[i])]
    /\ UNCHANGED <<config, tasks, ctx, fetched, marker, selected, feed, sent, exc, now,
                   tick, beats, seen, intime>>

Next ==
    \/ start
    \/ \E i \in Tasks : weibo_task(i)
    \/ \E i \in Tasks : bilibili_task(i)
    \/ \E i \in Tasks : youku_task(i)
    \/ \E i \in Tasks : push_done(i)
    \/ \E i \in Tasks : reportable_sleep(i)
    \/ run_exit

Spec == Init /\ [][Next]_vars

\* ------------------------------------------- one threshold loop, with history
\* Timestamps the endpoint reports and readings of datetime.now().timestamp()
\* of the same scale, for one weibo or bilibili loop.
FeedStamps == {100, 200, 300, 500}
ClockReadings == {250, 400, 600}

FeedResults ==
    {None} \cup { Some(s) : s \in SeqsUpTo([timestamp : FeedStamps], MaxItems) }

Range(s) == { s[k] : k \in 1..Len(s) }

\* History of loop i: the items its cycles kept so far, and those of them
\* that were kept by a cycle whose clock reading was not below their
\* timestamp.
Record(i) ==
    /\ seen' = [seen EXCEPT ![i] = @ \cup Range(selected'[i])]
    /\ intime' = [intime EXCEPT ![i] =
                     @ \cup { x \in Range(selected'[i]) : x.timestamp <= now' }]

weibo_history(i) ==
    /\ weibo_cycle(i, FeedResults, { t \in ClockReadings : t >= now })
    /\ Record(i)

bilibili_history(i) ==
    /\ bilibili_cycle(i, FeedResults, { t \in ClockReadings : t >= now })
    /\ Record(i)

InitThreshold ==
    /\ Init
    /\ Len(task_list(config)) = 1
    /\ task_list(config)[1].source \in {"weibo", "bilibili"}

NextThreshold ==
    \/ start
    \/ \E i \in Tasks : weibo_history(i)
    \/ \E i \in Tasks : bilibili_history(i)
    \/ \E i \in Tasks : push_done(i)
    \/ \E i \in Tasks : reportable_sleep(i)
    \/ run_exit

SpecThreshold == InitThreshold /\ [][NextThreshold]_vars

\* ------------------------------------- one loop, its sleep second by second
\* A fetch returns at most one item here: the sleep does not depend on them.
SleepResults(i) ==
    { r \in FetchResults(i) : r = None \/ Len(Val(r)) <= 1 }

weibo_short(i) ==
    /\ weibo_cycle(i, SleepResults(i), now..MaxTime)
    /\ UNCHANGED <<seen, intime>>

bilibili_short(i) ==
    /\ bilibili_cycle(i, SleepResults(i), now..MaxTime)
    /\ UNCHANGED <<seen, intime>>

youku_short(i) ==
    /\ youku_cycle(i, SleepResults(i))
    /\ UNCHANGED <<seen, intime>>

InitSleep ==
    /\ Init
    /\ Len(task_list(config)) = 1

NextSleep ==
    \/ start
    \/ \E i \in Tasks : weibo_short(i)
    \/ \E i \in Tasks : bilibili_short(i)
    \/ \E i \in Tasks : youku_short(i)
    \/ \E i \in Tasks : push_done(i)
    \/ \E i \in Tasks : sleep_tick(i)
    \/ run_exit
    \/ cancel

SpecSleep == InitSleep /\ [][NextSleep]_vars

\* ------------------------------------------------------------------ claims
\* The items task i fetched in its cycle (a non-empty list reached
\* prepare_*_feed, which read marker[i]).
Items(i) == Val(fetched[i])
Prepared(i) == fetched[i] # None /\ Items(i) # <<>>
Threshold(i) == tasks[i].source \in {"weibo", "bilibili"}

\* The step in which task i runs its loop body on a completed fetch.
FetchStep(i) == pc[i] = "fetch" /\ pc'[i] \in {"sleep", "push", "done"}

\* C1: with the marker unset and a non-empty fetch, exactly one item is
\* kept: an item of greatest timestamp (weibo, bilibili), the first fetched
\* video (youku).
ColdStartSelectsHead ==
    \A i \in Tasks :
        (Prepared(i) /\ marker[i] = None) =>
            /\ Len(selected[i]) = 1
            /\ IF Threshold(i)
               THEN /\ \E j \in 1..Len(Items(i)) : Items(i)[j] = selected[i][1]
                    /\ \A j \in 1..Len(Items(i)) :
                          Items(i)[j].timestamp <= selected[i][1].timestamp
               ELSE selected[i][1] = Items(i)[1]

\* C1 witness: a weibo cold start on three or more statuses whose first one
\* is not the most recent.
ColdStartWitness ==
    \E i \in Tasks :
        /\ tasks[i].source = "weibo"
        /\ Prepared(i) /\ marker[i] = None
        /\ Len(Items(i)) >= 3
        /\ Items(i)[1].timestamp < selected[i][1].timestamp

Descending(items) ==
    \A j \in 1..(Len(items) - 1) : items[j].timestamp > items[j + 1].timestamp

\* C2: weibo and bilibili, marker set to c, timestamps strictly descending:
\* the kept items are the prefix of the fetched ones with timestamp > c, and
\* none when c is at least the first timestamp.
ThresholdPrefix ==
    \A i \in Tasks :
        (Threshold(i) /\ Prepared(i) /\ marker[i] # None /\ Descending(Items(i))) =>
            LET c == Val(marker[i])
                k == Cardinality({j \in 1..Len(Items(i)) : Items(i)[j].timestamp > c})
            IN /\ selected[i] = SubSeq(Items(i), 1, k)
               /\ \A j \in 1..Len(Items(i)) : j > k => Items(i)[j].timestamp <= c
               /\ c >= Items(i)[1].timestamp => selected[i] = <<>>

\* C2 witness: a set marker splits three descending statuses into a kept
\* prefix and a dropped rest whose first timestamp equals the marker.
ThresholdPrefixWitness ==
    \E i \in Tasks :
        /\ Threshold(i) /\ Prepared(i) /\ marker[i] # None /\ Descending(Items(i))
        /\ Len(Items(i)) = 3
        /\ Len(selected[i]) = 2
        /\ Items(i)[3].timestamp = Val(marker[i])

FirstMatch(items, c) ==
    CHOOSE p \in 1..Len(items) :
        /\ items[p].title = c
        /\ \A q \in 1..(p - 1) : items[q].title # c

\* C3: youku, marker set and equal to the title of a fetched video: the kept
\* videos are those before the first such video, and when there are any the
\* marker becomes the title of the first fetched video.
BoundaryScanStops ==
    \A i \in Tasks :
        (/\ tasks[i].source = "youku" /\ Prepared(i) /\ marker[i] # None
         /\ \E j \in 1..Len(Items(i)) : Items(i)[j].title = Val(marker[i])) =>
            LET p == FirstMatch(Items(i), Val(marker[i]))
            IN /\ selected[i] = SubSeq(Items(i), 1, p - 1)
               /\ selected[i] # <<>> => Cursor(i) = Some(Items(i)[1].title)

\* C3 witness: videos k1, k2, k3, k4 with marker k3 give k1, k2 and marker k1.
BoundaryScanWitness ==
    \E i \in Tasks :
        /\ tasks[i].source = "youku" /\ Prepared(i)
        /\ marker[i] = Some("k3")
        /\ Items(i) = <<[title |-> "k1"], [title |-> "k2"], [title |-> "k3"], [title |-> "k4"]>>
        /\ selected[i] = <<[title |-> "k1"], [title |-> "k2"]>>
        /\ Cursor(i) = Some("k1")

\* C4: youku, marker set and equal to no fetched title: every fetched video
\* is kept and the marker becomes the title of the first one.
BoundaryScanNoMatch ==
    \A i \in Tasks :
        (/\ tasks[i].source = "youku" /\ Prepared(i) /\ marker[i] # None
         /\ \A j \in 1..Len(Items(i)) : Items(i)[j].title # Val(marker[i])) =>
            /\ selected[i] = Items(i)
            /\ Cursor(i) = Some(Items(i)[1].title)

\* C4 witness: marker k4, videos k1, k2, k3 fetched and all kept.
BoundaryScanNoMatchWitness ==
    \E i \in Tasks :
        /\ tasks[i].source = "youku" /\ Prepared(i)
        /\ marker[i] = Some("k4")
        /\ Len(Items(i)) = 3
        /\ \A j \in 1..3 : Items(i)[j].title # "k4"
        /\ selected[i] = Items(i)
        /\ Cursor(i) = Some(Items(i)[1].title)

\* C5: a cycle whose fetch returns an empty list leaves the marker as it
\* was, produces no text, issues no POST and ends asleep.
EmptyFetchIsNoOp ==
    [][\A i \in Tasks :
        (FetchStep(i) /\ fetched'[i] = Some(<<>>)) =>
            /\ Cursor(i)' = Cursor(i)
            /\ feed'[i] = EmptyText
            /\ ~sent'[i]
            /\ pc'[i] = "sleep"]_vars

\* C5 witness: a bilibili loop had an empty fetch with its marker set and
\* sleeps with the marker still set.
EmptyFetchWitness ==
    \E i \in Tasks :
        /\ tasks[i].source = "bilibili"
        /\ fetched[i] = Some(<<>>)
        /\ Cursor(i) # None
        /\ pc[i] = "sleep"

\* C6: a cycle whose fetch fails leaves the marker as it was, issues no POST
\* and ends asleep; the loop does not end.
FetchFailureIsNoOp ==
    [][\A i \in Tasks :
        (FetchStep(i) /\ fetched'[i] = None /\ exc'[i] # "KeyError") =>
            /\ Cursor(i)' = Cursor(i)
            /\ ~sent'[i]
            /\ pc'[i] = "sleep"]_vars

\* C7: a failed POST of push is caught: the loop goes to sleep and does not
\* end.
PushFailureIsCaught ==
    \A i \in Tasks : ~(pc[i] = "done" /\ exc[i] = "HTTPError")

\* C8: no loop is stopped because of a sibling: a loop stops at most by its
\* own fault.
LoopsIndependent ==
    \A i \in Tasks : pc[i] # "cancelled"

\* C9: every loop starts with its marker unset, and the marker a loop reads
\* changes only in that loop's own step.
PrivateCursor ==
    [][/\ runner = "init" => \A i \in 1..Len(tasks') : Cursor(i)' = None
       /\ \A i \in Tasks : Cursor(i)' # Cursor(i) => FetchStep(i)]_vars

\* C9 witness: two loops of the same source hold different set markers.
PrivateCursorWitness ==
    \E i, j \in Tasks :
        /\ i # j
        /\ tasks[i].source = tasks[j].source
        /\ tasks[i].id # tasks[j].id
        /\ Cursor(i) # None /\ Cursor(j) # None
        /\ Cursor(i) # Cursor(j)

CursorIsWallClock ==
    [][\A i \in Tasks :
          (/\ Threshold(i)
           /\ FetchStep(i)
           /\ fetched'[i] # None
           /\ fetched'[i] # Some(<<>>))
          => Cursor(i)' = Some(now')]_vars

\* A later cycle kept nothing, and the marker moved to a clock reading that
\* is the timestamp of none of the fetched items.
CursorIsWallClockWitness ==
    \E i \in Tasks :
        /\ Threshold(i)
        /\ Prepared(i)
        /\ marker[i] # None
        /\ selected[i] = <<>>
        /\ Cursor(i) = Some(now)
        /\ Cursor(i) # marker[i]
        /\ \A k \in 1..Len(Items(i)) : Items(i)[k].timestamp # now

\* C12: a youku cycle that keeps no item leaves the marker as it was; the
\* marker is written only by a cycle that keeps at least one item.
ZeroNewKeepsCursor ==
    [][\A i \in Tasks :
          (/\ tasks[i].source = "youku"
           /\ FetchStep(i)
           /\ selected'[i] = <<>>)
          => Cursor(i)' = Cursor(i)]_vars

\* The first of several fetched videos has the title of the marker.
ZeroNewKeepsCursorWitness ==
    \E i \in Tasks :
        /\ tasks[i].source = "youku"
        /\ Prepared(i)
        /\ Len(Items(i)) >= 2
        /\ marker[i] = Some(Items(i)[1].title)
        /\ selected[i] = <<>>
        /\ Cursor(i) = marker[i]

\* The number of ids configured over all sources.
RECURSIVE CountIds(_)
CountIds(c) == IF c = <<>> THEN 0 ELSE Len(Head(c).ids) + CountIds(Tail(c))

\* C14: the runner starts exactly one loop for every (source, id) of the
\* configuration, of the task type of that source; the number of loops is
\* the sum over the sources of the number of their ids, and all of them run.
RunnerComposition ==
    [][runner = "init" /\ runner' = "running" =>
          /\ Len(tasks') = CountIds(config)
          /\ \A e \in 1..Len(config) : \A k \in 1..Len(config[e].ids) :
                Cardinality({ i \in 1..Len(tasks') :
                                tasks'[i] = [source |-> config[e].source,
                                             id |-> config[e].ids[k]] }) = 1
          /\ \A i \in 1..Len(tasks') : pc'[i] = "fetch"]_vars

\* Two sources with one id each: two loops of different task types.
RunnerCompositionWitness ==
    /\ runner = "running"
    /\ Len(config) = 2
    /\ Len(tasks) = 2
    /\ tasks[1].source # tasks[2].source
    /\ \A i \in Tasks : pc[i] = "fetch"

\* C15: a threshold loop has written the marker when the push is issued; the
\* outcome of the push does not change it, a failed push included; and the
\* items of a cycle whose push failed are kept by no later cycle.
CursorBeforePush ==
    [][\A i \in Tasks : Threshold(i) =>
          /\ (FetchStep(i) /\ pc'[i] = "push") => Cursor(i)' = Some(now')
          /\ pc[i] = "push" => Cursor(i)' = Cursor(i)
          /\ (pc[i] = "done" /\ exc[i] = "HTTPError") =>
                (pc'[i] = "done" /\ selected'[i] = selected[i]
                 /\ Cursor(i)' = Cursor(i))]_vars

\* The push of a later cycle failed after the marker had moved.
CursorBeforePushWitness ==
    \E i \in Tasks :
        /\ Threshold(i)
        /\ pc[i] = "done"
        /\ exc[i] = "HTTPError"
        /\ marker[i] # None
        /\ selected[i] # <<>>
        /\ Cursor(i) = Some(now)
        /\ Cursor(i) # marker[i]

\* C16: an exception raised while the fetched items are parsed or the text
\* is rendered is caught at the loop: the marker is unchanged, nothing is
\* pushed and the loop goes to sleep.
FaultIsCaught ==
    [][\A i \in Tasks :
          (FetchStep(i) /\ exc'[i] \in {"KeyError", "TemplateError"}) =>
              /\ Cursor(i)' = Cursor(i)
              /\ ~sent'[i]
              /\ pc'[i] = "sleep"]_vars

\* C20: after every youku cycle that prepares a non-empty fetched list the
\* marker is the title of the first fetched video, and a marker that is set
\* is never unset.
CursorIsFirstTitle ==
    [][\A i \in Tasks : tasks[i].source = "youku" =>
          /\ (FetchStep(i) /\ fetched'[i] # None /\ fetched'[i] # Some(<<>>))
                => Cursor(i)' = Some(Val(fetched'[i])[1].title)
          /\ Cursor(i) # None => Cursor(i)' # None]_vars

\* A later cycle kept several videos and moved the marker to the first.
CursorIsFirstTitleWitness ==
    \E i \in Tasks :
        /\ tasks[i].source = "youku"
        /\ Prepared(i)
        /\ marker[i] # None
        /\ Len(selected[i]) >= 2
        /\ selected[i][1] # selected[i][Len(selected[i])]
        /\ Cursor(i) = Some(Items(i)[1].title)
        /\ Cursor(i) # marker[i]

\* The fetched list with the timestamps ts, in this order.
Stamped(ts) == [k \in 1..Len(ts) |-> [timestamp |-> ts[k]]]

\* The first cycle of the scenario: marker unset, [300, 200, 100] fetched.
FirstCycle(i) ==
    /\ Prepared(i)
    /\ marker[i] = None
    /\ Items(i) = Stamped(<<300, 200, 100>>)

\* A later cycle of the scenario: [500, 300, 200, 100] fetched with the
\* marker at the clock reading c of a previous cycle.
SecondCycle(i, c) ==
    /\ Prepared(i)
    /\ marker[i] = Some(c)
    /\ Items(i) = Stamped(<<500, 300, 200, 100>>)

\* C13 as stated: the first cycle keeps [300] and sets the marker to its
\* clock reading; the second, with the marker at any previous clock reading
\* above 300, keeps [500].
ScenarioAsStated ==
    \A i \in Tasks :
        /\ FirstCycle(i) =>
              (selected[i] = Stamped(<<300>>) /\ Cursor(i) = Some(now))
        /\ \A c \in ClockReadings :
              (c > 300 /\ SecondCycle(i, c)) => selected[i] = Stamped(<<500>>)

\* C13, amended: the second cycle keeps [500] when the previous clock
\* reading is above 300 and below 500.
Scenario ==
    \A i \in Tasks :
        /\ FirstCycle(i) =>
              (selected[i] = Stamped(<<300>>) /\ Cursor(i) = Some(now))
        /\ \A c \in ClockReadings :
              (c > 300 /\ c < 500 /\ SecondCycle(i, c)) =>
                  selected[i] = Stamped(<<500>>)

\* The second cycle, after a cycle that kept the item of timestamp 300.
ScenarioWitness ==
    \E i \in Tasks :
        /\ SecondCycle(i, 400)
        /\ selected[i] = Stamped(<<500>>)
        /\ seen[i] = {[timestamp |-> 300], [timestamp |-> 500]}
        /\ Cursor(i) = Some(now)

\* C19: with a clock that never goes back, an item kept by a cycle of a
\* threshold loop whose clock reading was not below the item's timestamp is
\* kept by no later cycle of that loop.
AtMostOnce ==
    [][\A i \in Tasks :
          FetchStep(i) =>
              \A k \in 1..Len(selected'[i]) : selected'[i][k] \notin intime[i]]_vars

\* A later cycle fetched again an item that an earlier cycle had kept in
\* time, and kept another one only.
AtMostOnceWitness ==
    \E i \in Tasks :
        /\ Prepared(i)
        /\ selected[i] # <<>>
        /\ \E k \in 1..Len(Items(i)) :
              /\ Items(i)[k] \in intime[i]
              /\ Items(i)[k] \notin Range(selected[i])

\* reportable_sleep, once entered, runs all its ticks: it starts at i = 0
\* with the first heartbeat, every tick adds one to i and a heartbeat when
\* i % 60 = 0, and the next fetch follows tick 600 and heartbeat 10 only.
SleepIsComplete ==
    [][\A i \in Tasks :
          /\ (pc[i] # "sleep" /\ pc'[i] = "sleep") =>
                (tick'[i] = 0 /\ beats'[i] = 1)
          /\ (pc[i] = "sleep" /\ pc'[i] = "sleep") =>
                /\ tick'[i] = tick[i] + 1
                /\ beats'[i] = beats[i] + (IF tick'[i] % 60 = 0 THEN 1 ELSE 0)
          /\ pc'[i] = "fetch" =>
                \/ pc[i] = "fetch"
                \/ pc[i] = "sleep" /\ tick[i] + 1 = 600 /\ beats[i] = 10]_vars

\* C17: every cycle of every loop ends with reportable_sleep(600), with 600
\* ticks and a heartbeat at the ticks i with i mod 60 = 0, so that two fetches
\* of a loop are separated by a complete sleep.
SleepAndHeartbeat ==
    [][\A i \in Tasks :
          /\ FetchStep(i) => pc'[i] \in {"push", "sleep"}
          /\ (pc[i] = "push" /\ pc'[i] \notin {"push", "cancelled"}) =>
                pc'[i] = "sleep"
          /\ (pc[i] # "sleep" /\ pc'[i] = "sleep") =>
                (tick'[i] = 0 /\ beats'[i] = 1)
          /\ (pc[i] = "sleep" /\ pc'[i] = "fetch") =>
                (tick[i] + 1 = 600 /\ beats[i] = 10)]_vars

\* C18 as stated: a loop is cancelled at a tick of its sleep only.
CancelOnlyAtTick ==
    [][\A i \in Tasks :
          (pc[i] # "cancelled" /\ pc'[i] = "cancelled") => pc[i] = "sleep"]_vars

\* C18, amended: when the runner is cancelled, every loop that has not ended
\* is cancelled in that step at the await it is suspended at (the GET of a
\* fetch, the POST of a push or a tick of the sleep) and does nothing more.
CancelAtAwait ==
    [][\A i \in Tasks :
          /\ (runner = "running" /\ runner' = "exited" /\ pc[i] # "done") =>
                pc'[i] = "cancelled"
          /\ pc[i] = "cancelled" =>
                /\ pc'[i] = "cancelled"
                /\ tick'[i] = tick[i]
                /\ sent'[i] = sent[i]
                /\ Cursor(i)' = Cursor(i)]_vars

\* A loop cancelled at the GET of the fetch of a later cycle.
CancelAtAwaitWitness ==
    \E i \in Tasks :
        /\ pc[i] = "cancelled"
        /\ exc[i] = "None"
        /\ beats[i] = 0
        /\ ~sent[i]
        /\ Cursor(i) # None

====
